---- MODULE Spec2Model ----
(***************************************************************************)
(* A model of CustomQueue<T> (src/ThreadSafeQueue2.cpp): a linked FIFO     *)
(* queue with a dummy tail node, one mutex for each end and a condition    *)
(* variable for the blocking pop.  Threads call push, pop, try_pop and     *)
(* empty concurrently; every access to shared memory is a step of its own. *)
(* The sibling classes of the repository, ThreadSafeStack (both files) and *)
(* SpinLock, have specifications of their own in the same module.          *)
(***************************************************************************)
EXTENDS Integers, Sequences, FiniteSets, TLC

\* ------------------------------------------------------------- bounds
\* Number of threads calling into the queue.
NumThreads == 2
\* Number of push calls that get past the allocation; the k-th pushes value k.
MaxPush == 2
\* Number of threads that call the blocking pop next to one pushing thread.
NumWaiters == 2
\* Number of threads that contend for one SpinLock.
NumSpinners == 3

\* ------------------------------------------------------------- constants
\* nullptr
NULL == 0
\* An unowned std::mutex.
NoThread == 0
\* T(): the payload of a value-initialised Element (new Element()).
DefaultT == 0
\* What the caller's variable holds when it is handed to try_pop(T& value).
CallerValue == -1

Threads == 1..NumThreads
\* Every Element ever allocated has an identity of its own: the constructor's
\* dummy and one new dummy per push.
Nodes == 1..(MaxPush + 1)
Values == 1..MaxPush

VARIABLES
    head, tail,            \* Element* Head, Tail (Sequences owns those names)
    data, next,            \* Element::data, Element::next of every node
    st,                    \* node lifetime: "unalloc", "live" (new), "freed" (delete)
    HeadMutex, TailMutex,  \* owner of each std::mutex, NoThread when unlocked
    cv,                    \* the threads blocked inside cv.wait
    op, pc,                \* per thread: the member function it is in, and where
    pdata,                 \* push's parameter data
    newdummy,              \* push's local newdummy
    tl,                    \* the pointer get_tail() returned to the caller
    datareturned,          \* pop's local datareturned
    value,                 \* try_pop's out-parameter (the caller's variable)
    oldelement,            \* pop's / try_pop's local oldelement
    rv,                    \* what the call returned or threw, once pc = "done"
    nPush,                 \* push calls so far (the next value is nPush + 1)
    hist,                  \* the enqueues and dequeues so far, in order:
                           \* <<"push" or "pop", value>>
    fault,                 \* undefined behaviour seen so far
    flag,                  \* SpinLock: std::atomic_flag flag
    was_already_locked,    \* SpinLock::lock's local, per thread
    sdata, m,              \* ThreadSafeStack.cpp: std::stack<T> data (bottom
                           \* first; data names Element::data here) and its mutex
    val,                   \* ThreadSafeStack.cpp: pop's local val
    Top, Mutex,            \* ThreadSafeStack2.cpp: Element* Top and its mutex
    newElement,            \* ThreadSafeStack2.cpp: push's local newElement
    included               \* which of the two stack files the program includes

heap == <<data, next, st>>
locks == <<HeadMutex, TailMutex>>
locals == <<pdata, newdummy, tl, datareturned, value, oldelement, rv>>
\* The state of the classes next to CustomQueue: SpinLock and the two stacks.
spin == <<flag, was_already_locked>>
siblings == <<flag, was_already_locked, sdata, m, val, Top, Mutex, newElement,
              included>>
vars == <<head, tail, data, next, st, HeadMutex, TailMutex, cv, op, pc,
          pdata, newdummy, tl, datareturned, value, oldelement, rv,
          nPush, hist, fault, siblings>>

\* ------------------------------------------------------------- memory
Live(n) == n \in Nodes /\ st[n] = "live"

\* What a read of n->data can yield: the stored payload, or anything when n is
\* null or released (undefined behaviour).
ReadData(n) == IF Live(n) THEN {data[n]} ELSE Values \cup {DefaultT}

\* What a read of n->next can yield.
ReadNext(n) == IF Live(n) THEN {next[n]} ELSE Nodes \cup {NULL}

\* The undefined behaviour recorded by an access to n.
Access(n, what) == IF Live(n) THEN fault ELSE fault \cup {what}

\* new Element(): the node the allocator hands out.
Unalloc == {n \in Nodes : st[n] = "unalloc"}
NewElement == CHOOSE n \in Unalloc : \A k \in Unalloc : n <= k

\* No SpinLock and no stack has been constructed next to the queue.
NoSiblings ==
    /\ flag = FALSE
    /\ was_already_locked = <<>>
    /\ sdata = <<>>
    /\ m = NoThread
    /\ val = <<>>
    /\ Top = NULL
    /\ Mutex = NoThread
    /\ newElement = <<>>
    /\ included = "none"

\* ------------------------------------------------------------- construction
\* CustomQueue(): one dummy node, Head = Tail = dummy.
Init ==
    /\ head = 1
    /\ tail = 1
    /\ data = [n \in Nodes |-> DefaultT]
    /\ next = [n \in Nodes |-> NULL]
    /\ st = [n \in Nodes |-> IF n = 1 THEN "live" ELSE "unalloc"]
    /\ HeadMutex = NoThread
    /\ TailMutex = NoThread
    /\ cv = {}
    /\ op = [t \in Threads |-> "none"]
    /\ pc = [t \in Threads |-> "idle"]
    /\ pdata = [t \in Threads |-> DefaultT]
    /\ newdummy = [t \in Threads |-> NULL]
    /\ tl = [t \in Threads |-> NULL]
    /\ datareturned = [t \in Threads |-> DefaultT]
    /\ value = [t \in Threads |-> CallerValue]
    /\ oldelement = [t \in Threads |-> NULL]
    /\ rv = [t \in Threads |-> "none"]
    /\ nPush = 0
    /\ hist = <<>>
    /\ fault = {}
    /\ NoSiblings

\* ------------------------------------------------------------- push
\* push(data), line 53-54: the call and the allocation of the new dummy,
\* outside any lock.
push_alloc(t) ==
    /\ pc[t] = "idle"
    /\ nPush < MaxPush
    /\ Unalloc # {}
    /\ LET n == NewElement IN
        /\ st' = [st EXCEPT ![n] = "live"]
        /\ data' = [data EXCEPT ![n] = DefaultT]
        /\ next' = [next EXCEPT ![n] = NULL]
        /\ newdummy' = [newdummy EXCEPT ![t] = n]
    /\ nPush' = nPush + 1
    /\ pdata' = [pdata EXCEPT ![t] = nPush + 1]
    /\ op' = [op EXCEPT ![t] = "push"]
    /\ pc' = [pc EXCEPT ![t] = "push_lock"]
    /\ UNCHANGED <<head, tail, locks, cv, tl, datareturned, value, oldelement,
                   rv, hist, fault>>
    /\ UNCHANGED siblings

\* Mutant of push_alloc_fail: the payload is stored in the node Tail points to
\* before the allocation that fails.
push_alloc_fail_dirty(t) ==
    /\ pc[t] = "idle"
    /\ nPush < MaxPush
    /\ data' = [data EXCEPT ![tail] = nPush + 1]
    /\ op' = [op EXCEPT ![t] = "push"]
    /\ pc' = [pc EXCEPT ![t] = "done"]
    /\ rv' = [rv EXCEPT ![t] = "bad_alloc"]
    /\ UNCHANGED <<head, tail, next, st, locks, cv, pdata, newdummy, tl,
                   datareturned, value, oldelement, nPush, hist, fault>>
    /\ UNCHANGED siblings

\* push(data), line 53: new Element() throws std::bad_alloc, which leaves push
\* at once.
push_alloc_fail(t) ==
    /\ pc[t] = "idle"
    /\ nPush < MaxPush
    /\ op' = [op EXCEPT ![t] = "push"]
    /\ pc' = [pc EXCEPT ![t] = "done"]
    /\ rv' = [rv EXCEPT ![t] = "bad_alloc"]
    /\ UNCHANGED <<head, tail, heap, locks, cv, pdata, newdummy, tl,
                   datareturned, value, oldelement, nPush, hist, fault>>
    /\ UNCHANGED siblings

\* Mutant of push_lock: push serialises with the consumers by taking HeadMutex
\* as well.
push_lock_both(t) ==
    /\ pc[t] = "push_lock"
    /\ TailMutex = NoThread
    /\ HeadMutex = NoThread
    /\ TailMutex' = t
    /\ HeadMutex' = t
    /\ pc' = [pc EXCEPT ![t] = "push_data"]
    /\ UNCHANGED <<head, tail, heap, cv, op, locals, nPush, hist, fault>>
    /\ UNCHANGED siblings

\* Mutant of push_lock: push goes on to its writes without TailMutex.
push_lock_missing(t) ==
    /\ pc[t] = "push_lock"
    /\ pc' = [pc EXCEPT ![t] = "push_data"]
    /\ UNCHANGED <<head, tail, heap, locks, cv, op, locals, nPush, hist, fault>>
    /\ UNCHANGED siblings

\* line 57: std::lock_guard tail_lock(TailMutex).
push_lock(t) ==
    /\ pc[t] = "push_lock"
    /\ TailMutex = NoThread
    /\ TailMutex' = t
    /\ pc' = [pc EXCEPT ![t] = "push_data"]
    /\ UNCHANGED <<head, tail, heap, HeadMutex, cv, op, locals, nPush, hist, fault>>
    /\ UNCHANGED siblings

\* Mutant of push_data: the payload goes into the new dummy instead of the
\* node Tail points to.
push_data_newdummy(t) ==
    /\ pc[t] = "push_data"
    /\ data' = [data EXCEPT ![newdummy[t]] = pdata[t]]
    /\ fault' = Access(newdummy[t], "write")
    /\ pc' = [pc EXCEPT ![t] = "push_link"]
    /\ UNCHANGED <<head, tail, next, st, locks, cv, op, locals, nPush, hist>>
    /\ UNCHANGED siblings

\* Mutant of push_data: push takes HeadMutex as well before it writes, with
\* TailMutex already owned (the opposite of the order get_tail uses).
push_data_head_locked(t) ==
    /\ pc[t] = "push_data"
    /\ HeadMutex = NoThread
    /\ HeadMutex' = t
    /\ data' = IF Live(tail) THEN [data EXCEPT ![tail] = pdata[t]] ELSE data
    /\ fault' = Access(tail, "write")
    /\ pc' = [pc EXCEPT ![t] = "push_link"]
    /\ UNCHANGED <<head, tail, next, st, TailMutex, cv, op, locals, nPush, hist>>
    /\ UNCHANGED siblings

\* line 60: Tail->data = data.
push_data(t) ==
    /\ pc[t] = "push_data"
    /\ data' = IF Live(tail) THEN [data EXCEPT ![tail] = pdata[t]] ELSE data
    /\ fault' = Access(tail, "write")
    /\ pc' = [pc EXCEPT ![t] = "push_link"]
    /\ UNCHANGED <<head, tail, next, st, locks, cv, op, locals, nPush, hist>>
    /\ UNCHANGED siblings

\* Mutant of push_link: the new dummy is never linked behind the old one.
push_link_skip(t) ==
    /\ pc[t] = "push_link"
    /\ pc' = [pc EXCEPT ![t] = "push_tail"]
    /\ UNCHANGED <<head, tail, heap, locks, cv, op, locals, nPush, hist, fault>>
    /\ UNCHANGED siblings

\* line 61: Tail->next = newdummy.
push_link(t) ==
    /\ pc[t] = "push_link"
    /\ next' = IF Live(tail) THEN [next EXCEPT ![tail] = newdummy[t]] ELSE next
    /\ fault' = Access(tail, "write")
    /\ pc' = [pc EXCEPT ![t] = "push_tail"]
    /\ UNCHANGED <<head, tail, data, st, locks, cv, op, locals, nPush, hist>>
    /\ UNCHANGED siblings

\* line 62: Tail = newdummy.  The value is enqueued from here on.
push_tail(t) ==
    /\ pc[t] = "push_tail"
    /\ tail' = newdummy[t]
    /\ hist' = Append(hist, <<"push", pdata[t]>>)
    /\ pc' = [pc EXCEPT ![t] = "push_unlock"]
    /\ UNCHANGED <<head, heap, locks, cv, op, locals, nPush, fault>>
    /\ UNCHANGED siblings

\* Mutant of push_unlock: TailMutex is not released before the notification.
push_unlock_keep(t) ==
    /\ pc[t] = "push_unlock"
    /\ pc' = [pc EXCEPT ![t] = "push_notify"]
    /\ UNCHANGED <<head, tail, heap, locks, cv, op, locals, nPush, hist, fault>>
    /\ UNCHANGED siblings

\* line 65: the lock_guard's scope ends.
push_unlock(t) ==
    /\ pc[t] = "push_unlock"
    /\ TailMutex' = IF TailMutex = t THEN NoThread ELSE TailMutex
    /\ pc' = [pc EXCEPT ![t] = "push_notify"]
    /\ UNCHANGED <<head, tail, heap, HeadMutex, cv, op, locals, nPush, hist, fault>>
    /\ UNCHANGED siblings

\* Mutant of push_notify: cv.notify_all() in place of cv.notify_one().
push_notify_all(t) ==
    /\ pc[t] = "push_notify"
    /\ cv' = {}
    /\ pc' = [pc EXCEPT ![t] = "done"]
    /\ rv' = [rv EXCEPT ![t] = "void"]
    /\ pdata' = [pdata EXCEPT ![t] = DefaultT]
    /\ newdummy' = [newdummy EXCEPT ![t] = NULL]
    /\ UNCHANGED <<head, tail, heap, locks, op, tl, datareturned, value,
                   oldelement, nPush, hist, fault>>
    /\ UNCHANGED siblings

\* line 67: cv.notify_one() wakes one of the threads blocked in cv.wait, if
\* there is one; push returns and its locals are gone.
push_notify(t) ==
    /\ pc[t] = "push_notify"
    /\ \/ cv = {} /\ cv' = cv
       \/ \E w \in cv : cv' = cv \ {w}
    /\ pc' = [pc EXCEPT ![t] = "done"]
    /\ rv' = [rv EXCEPT ![t] = "void"]
    /\ pdata' = [pdata EXCEPT ![t] = DefaultT]
    /\ newdummy' = [newdummy EXCEPT ![t] = NULL]
    /\ UNCHANGED <<head, tail, heap, locks, op, tl, datareturned, value,
                   oldelement, nPush, hist, fault>>
    /\ UNCHANGED siblings

\* ------------------------------------------------------------- get_tail
\* line 24: std::lock_guard tail_lock(TailMutex), entered from pop's
\* predicate, try_pop or empty with HeadMutex held.
get_tail_lock(t) ==
    /\ pc[t] = "get_tail"
    /\ TailMutex = NoThread
    /\ TailMutex' = t
    /\ pc' = [pc EXCEPT ![t] = "get_tail_ret"]
    /\ UNCHANGED <<head, tail, heap, HeadMutex, cv, op, locals, nPush, hist, fault>>
    /\ UNCHANGED siblings

\* line 25-26: return Tail, then the lock_guard unlocks.
get_tail_return(t) ==
    /\ pc[t] = "get_tail_ret"
    /\ tl' = [tl EXCEPT ![t] = tail]
    /\ TailMutex' = IF TailMutex = t THEN NoThread ELSE TailMutex
    /\ pc' = [pc EXCEPT ![t] = IF op[t] = "pop" THEN "pop_check"
                               ELSE IF op[t] = "try_pop" THEN "try_check"
                               ELSE "empty_ret"]
    /\ UNCHANGED <<head, tail, heap, HeadMutex, cv, op, pdata, newdummy,
                   datareturned, value, oldelement, rv, nPush, hist, fault>>
    /\ UNCHANGED siblings

\* ------------------------------------------------------------- pop
\* line 71: a thread calls pop().
pop_call(t) ==
    /\ pc[t] = "idle"
    /\ op' = [op EXCEPT ![t] = "pop"]
    /\ pc' = [pc EXCEPT ![t] = "pop_lock"]
    /\ UNCHANGED <<head, tail, heap, locks, cv, locals, nPush, hist, fault>>
    /\ UNCHANGED siblings

\* line 73: std::unique_lock head_lock(HeadMutex); cv.wait then evaluates
\* its predicate.
pop_lock(t) ==
    /\ pc[t] = "pop_lock"
    /\ HeadMutex = NoThread
    /\ HeadMutex' = t
    /\ pc' = [pc EXCEPT ![t] = "get_tail"]
    /\ UNCHANGED <<head, tail, heap, TailMutex, cv, op, locals, nPush, hist, fault>>
    /\ UNCHANGED siblings

\* Mutant of pop_check: the thread blocks on cv with HeadMutex still owned.
pop_check_hold(t) ==
    /\ pc[t] = "pop_check"
    /\ IF head # tl[t]
         THEN /\ pc' = [pc EXCEPT ![t] = "pop_copy"]
              /\ UNCHANGED <<HeadMutex, cv>>
         ELSE /\ pc' = [pc EXCEPT ![t] = "pop_wait"]
              /\ HeadMutex' = HeadMutex
              /\ cv' = cv \cup {t}
    /\ tl' = [tl EXCEPT ![t] = NULL]
    /\ UNCHANGED <<head, tail, heap, TailMutex, op, pdata, newdummy,
                   datareturned, value, oldelement, rv, nPush, hist, fault>>
    /\ UNCHANGED siblings

\* line 76-80: cv.wait(head_lock, pred) with the value get_tail() returned:
\* while the predicate Head != get_tail() is false, release HeadMutex and
\* block on cv; go on once it is true.
pop_check(t) ==
    /\ pc[t] = "pop_check"
    /\ IF head # tl[t]
         THEN /\ pc' = [pc EXCEPT ![t] = "pop_copy"]
              /\ UNCHANGED <<HeadMutex, cv>>
         ELSE /\ pc' = [pc EXCEPT ![t] = "pop_wait"]
              /\ HeadMutex' = IF HeadMutex = t THEN NoThread ELSE HeadMutex
              /\ cv' = cv \cup {t}
    /\ tl' = [tl EXCEPT ![t] = NULL]
    /\ UNCHANGED <<head, tail, heap, TailMutex, op, pdata, newdummy,
                   datareturned, value, oldelement, rv, nPush, hist, fault>>
    /\ UNCHANGED siblings

\* line 76: a thread blocked in cv.wait may wake without a notification.
spurious_wake(t) ==
    /\ pc[t] = "pop_wait"
    /\ t \in cv
    /\ cv' = cv \ {t}
    /\ UNCHANGED <<head, tail, heap, locks, op, pc, locals, nPush, hist, fault>>
    /\ UNCHANGED siblings

\* Mutant of pop_wake: a woken thread goes on to the extraction without
\* evaluating the predicate again (a wait without a predicate).
pop_wake_no_recheck(t) ==
    /\ pc[t] = "pop_wait"
    /\ t \notin cv
    /\ HeadMutex = NoThread
    /\ HeadMutex' = t
    /\ pc' = [pc EXCEPT ![t] = "pop_copy"]
    /\ UNCHANGED <<head, tail, heap, TailMutex, cv, op, locals, nPush, hist, fault>>
    /\ UNCHANGED siblings

\* line 76: a woken thread reacquires HeadMutex inside cv.wait and evaluates
\* the predicate again.
pop_wake(t) ==
    /\ pc[t] = "pop_wait"
    /\ t \notin cv
    /\ HeadMutex = NoThread
    /\ HeadMutex' = t
    /\ pc' = [pc EXCEPT ![t] = "get_tail"]
    /\ UNCHANGED <<head, tail, heap, TailMutex, cv, op, locals, nPush, hist, fault>>
    /\ UNCHANGED siblings

\* Mutant of pop_copy: the payload is taken from the node after Head, as in a
\* queue whose dummy sits at the head.
pop_copy_next(t) ==
    /\ pc[t] = "pop_copy"
    /\ \E v \in ReadData(IF Live(head) THEN next[head] ELSE NULL) :
           datareturned' = [datareturned EXCEPT ![t] = v]
    /\ fault' = Access(head, "read")
    /\ pc' = [pc EXCEPT ![t] = "pop_advance"]
    /\ UNCHANGED <<head, tail, heap, locks, cv, op, pdata, newdummy, tl, value,
                   oldelement, rv, nPush, hist>>
    /\ UNCHANGED siblings

\* line 84: T datareturned = Head->data.
pop_copy(t) ==
    /\ pc[t] = "pop_copy"
    /\ \E v \in ReadData(head) : datareturned' = [datareturned EXCEPT ![t] = v]
    /\ fault' = Access(head, "read")
    /\ pc' = [pc EXCEPT ![t] = "pop_advance"]
    /\ UNCHANGED <<head, tail, heap, locks, cv, op, pdata, newdummy, tl, value,
                   oldelement, rv, nPush, hist>>
    /\ UNCHANGED siblings

\* line 89-90: oldelement = Head; Head = Head->next.  The value is dequeued
\* from here on.
pop_advance(t) ==
    /\ pc[t] = "pop_advance"
    /\ oldelement' = [oldelement EXCEPT ![t] = head]
    /\ \E n \in ReadNext(head) : head' = n
    /\ fault' = Access(head, "read")
    /\ hist' = Append(hist, <<"pop", datareturned[t]>>)
    /\ pc' = [pc EXCEPT ![t] = "pop_delete"]
    /\ UNCHANGED <<tail, heap, locks, cv, op, pdata, newdummy, tl, datareturned,
                   value, rv, nPush>>
    /\ UNCHANGED siblings

\* line 92: delete oldelement.
pop_delete(t) ==
    /\ pc[t] = "pop_delete"
    /\ st' = IF Live(oldelement[t]) THEN [st EXCEPT ![oldelement[t]] = "freed"] ELSE st
    /\ fault' = Access(oldelement[t], "delete")
    /\ pc' = [pc EXCEPT ![t] = "pop_ret"]
    /\ UNCHANGED <<head, tail, data, next, locks, cv, op, locals, nPush, hist>>
    /\ UNCHANGED siblings

\* line 95-96: return datareturned; head_lock unlocks.
pop_return(t) ==
    /\ pc[t] = "pop_ret"
    /\ HeadMutex' = IF HeadMutex = t THEN NoThread ELSE HeadMutex
    /\ rv' = [rv EXCEPT ![t] = "value"]
    /\ oldelement' = [oldelement EXCEPT ![t] = NULL]
    /\ pc' = [pc EXCEPT ![t] = "done"]
    /\ UNCHANGED <<head, tail, heap, TailMutex, cv, op, pdata, newdummy, tl,
                   datareturned, value, nPush, hist, fault>>
    /\ UNCHANGED siblings

\* ------------------------------------------------------------- try_pop
\* line 98: a thread calls try_pop(value) on a variable of its own.
try_call(t) ==
    /\ pc[t] = "idle"
    /\ op' = [op EXCEPT ![t] = "try_pop"]
    /\ pc' = [pc EXCEPT ![t] = "try_lock"]
    /\ value' = [value EXCEPT ![t] = CallerValue]
    /\ UNCHANGED <<head, tail, heap, locks, cv, pdata, newdummy, tl,
                   datareturned, oldelement, rv, nPush, hist, fault>>
    /\ UNCHANGED siblings

\* Mutant of try_lock: try_pop goes on without taking HeadMutex.
try_lock_missing(t) ==
    /\ pc[t] = "try_lock"
    /\ pc' = [pc EXCEPT ![t] = "get_tail"]
    /\ UNCHANGED <<head, tail, heap, locks, cv, op, locals, nPush, hist, fault>>
    /\ UNCHANGED siblings

\* line 100: std::lock_guard head_lock(HeadMutex); then get_tail().
try_lock(t) ==
    /\ pc[t] = "try_lock"
    /\ HeadMutex = NoThread
    /\ HeadMutex' = t
    /\ pc' = [pc EXCEPT ![t] = "get_tail"]
    /\ UNCHANGED <<head, tail, heap, TailMutex, cv, op, locals, nPush, hist, fault>>
    /\ UNCHANGED siblings

\* Mutant of try_check: the payload of Head is copied into value before the
\* queue is found empty.
try_check_copy_first(t) ==
    /\ pc[t] = "try_check"
    /\ \E v \in ReadData(head) : value' = [value EXCEPT ![t] = v]
    /\ IF head = tl[t]
         THEN /\ HeadMutex' = IF HeadMutex = t THEN NoThread ELSE HeadMutex
              /\ rv' = [rv EXCEPT ![t] = "false"]
              /\ pc' = [pc EXCEPT ![t] = "done"]
         ELSE /\ pc' = [pc EXCEPT ![t] = "try_advance"]
              /\ UNCHANGED <<HeadMutex, rv>>
    /\ tl' = [tl EXCEPT ![t] = NULL]
    /\ UNCHANGED <<head, tail, heap, TailMutex, cv, op, pdata, newdummy,
                   datareturned, oldelement, nPush, hist, fault>>
    /\ UNCHANGED siblings

\* Mutant of try_check: emptiness is tested as Head == nullptr, without the
\* dummy in mind.
try_check_null(t) ==
    /\ pc[t] = "try_check"
    /\ IF head = NULL
         THEN /\ HeadMutex' = IF HeadMutex = t THEN NoThread ELSE HeadMutex
              /\ rv' = [rv EXCEPT ![t] = "false"]
              /\ pc' = [pc EXCEPT ![t] = "done"]
         ELSE /\ pc' = [pc EXCEPT ![t] = "try_copy"]
              /\ UNCHANGED <<HeadMutex, rv>>
    /\ tl' = [tl EXCEPT ![t] = NULL]
    /\ UNCHANGED <<head, tail, heap, TailMutex, cv, op, pdata, newdummy,
                   datareturned, value, oldelement, nPush, hist, fault>>
    /\ UNCHANGED siblings

\* line 102-105: if (Head == get_tail()) return false; head_lock unlocks.
try_check(t) ==
    /\ pc[t] = "try_check"
    /\ IF head = tl[t]
         THEN /\ HeadMutex' = IF HeadMutex = t THEN NoThread ELSE HeadMutex
              /\ rv' = [rv EXCEPT ![t] = "false"]
              /\ pc' = [pc EXCEPT ![t] = "done"]
         ELSE /\ pc' = [pc EXCEPT ![t] = "try_copy"]
              /\ UNCHANGED <<HeadMutex, rv>>
    /\ tl' = [tl EXCEPT ![t] = NULL]
    /\ UNCHANGED <<head, tail, heap, TailMutex, cv, op, pdata, newdummy,
                   datareturned, value, oldelement, nPush, hist, fault>>
    /\ UNCHANGED siblings

\* line 107: value = Head->data.
try_copy(t) ==
    /\ pc[t] = "try_copy"
    /\ \E v \in ReadData(head) : value' = [value EXCEPT ![t] = v]
    /\ fault' = Access(head, "read")
    /\ pc' = [pc EXCEPT ![t] = "try_advance"]
    /\ UNCHANGED <<head, tail, heap, locks, cv, op, pdata, newdummy, tl,
                   datareturned, oldelement, rv, nPush, hist>>
    /\ UNCHANGED siblings

\* line 110-111: oldelement = Head; Head = Head->next.
try_advance(t) ==
    /\ pc[t] = "try_advance"
    /\ oldelement' = [oldelement EXCEPT ![t] = head]
    /\ \E n \in ReadNext(head) : head' = n
    /\ fault' = Access(head, "read")
    /\ hist' = Append(hist, <<"pop", value[t]>>)
    /\ pc' = [pc EXCEPT ![t] = "try_delete"]
    /\ UNCHANGED <<tail, heap, locks, cv, op, pdata, newdummy, tl, datareturned,
                   value, rv, nPush>>
    /\ UNCHANGED siblings

\* line 113: delete oldelement.
try_delete(t) ==
    /\ pc[t] = "try_delete"
    /\ st' = IF Live(oldelement[t]) THEN [st EXCEPT ![oldelement[t]] = "freed"] ELSE st
    /\ fault' = Access(oldelement[t], "delete")
    /\ pc' = [pc EXCEPT ![t] = "try_ret"]
    /\ UNCHANGED <<head, tail, data, next, locks, cv, op, locals, nPush, hist>>
    /\ UNCHANGED siblings

\* line 114-115: return true; head_lock unlocks.
try_return(t) ==
    /\ pc[t] = "try_ret"
    /\ HeadMutex' = IF HeadMutex = t THEN NoThread ELSE HeadMutex
    /\ rv' = [rv EXCEPT ![t] = "true"]
    /\ oldelement' = [oldelement EXCEPT ![t] = NULL]
    /\ pc' = [pc EXCEPT ![t] = "done"]
    /\ UNCHANGED <<head, tail, heap, TailMutex, cv, op, pdata, newdummy, tl,
                   datareturned, value, nPush, hist, fault>>
    /\ UNCHANGED siblings

\* ------------------------------------------------------------- empty
\* line 117: a thread calls empty().
empty_call(t) ==
    /\ pc[t] = "idle"
    /\ op' = [op EXCEPT ![t] = "empty"]
    /\ pc' = [pc EXCEPT ![t] = "empty_lock"]
    /\ UNCHANGED <<head, tail, heap, locks, cv, locals, nPush, hist, fault>>
    /\ UNCHANGED siblings

\* line 119: std::lock_guard head_lock(HeadMutex); then get_tail().
empty_lock(t) ==
    /\ pc[t] = "empty_lock"
    /\ HeadMutex = NoThread
    /\ HeadMutex' = t
    /\ pc' = [pc EXCEPT ![t] = "get_tail"]
    /\ UNCHANGED <<head, tail, heap, TailMutex, cv, op, locals, nPush, hist, fault>>
    /\ UNCHANGED siblings

\* Mutant of empty_return: the comparison is inverted.
empty_return_inverted(t) ==
    /\ pc[t] = "empty_ret"
    /\ rv' = [rv EXCEPT ![t] = IF head # tl[t] THEN "true" ELSE "false"]
    /\ tl' = [tl EXCEPT ![t] = NULL]
    /\ HeadMutex' = IF HeadMutex = t THEN NoThread ELSE HeadMutex
    /\ pc' = [pc EXCEPT ![t] = "done"]
    /\ UNCHANGED <<head, tail, heap, TailMutex, cv, op, pdata, newdummy,
                   datareturned, value, oldelement, nPush, hist, fault>>
    /\ UNCHANGED siblings

\* line 120-122: return Head == get_tail(); head_lock unlocks.
empty_return(t) ==
    /\ pc[t] = "empty_ret"
    /\ rv' = [rv EXCEPT ![t] = IF head = tl[t] THEN "true" ELSE "false"]
    /\ tl' = [tl EXCEPT ![t] = NULL]
    /\ HeadMutex' = IF HeadMutex = t THEN NoThread ELSE HeadMutex
    /\ pc' = [pc EXCEPT ![t] = "done"]
    /\ UNCHANGED <<head, tail, heap, TailMutex, cv, op, pdata, newdummy,
                   datareturned, value, oldelement, nPush, hist, fault>>
    /\ UNCHANGED siblings

\* ------------------------------------------------------------- the caller
\* The caller has used the result of the call and is ready for another.
call_end(t) ==
    /\ pc[t] = "done"
    /\ op' = [op EXCEPT ![t] = "none"]
    /\ pc' = [pc EXCEPT ![t] = "idle"]
    /\ datareturned' = [datareturned EXCEPT ![t] = DefaultT]
    /\ value' = [value EXCEPT ![t] = CallerValue]
    /\ rv' = [rv EXCEPT ![t] = "none"]
    /\ UNCHANGED <<head, tail, heap, locks, cv, pdata, newdummy, tl,
                   oldelement, nPush, hist, fault>>
    /\ UNCHANGED siblings

\* ------------------------------------------------------------- the system
\* The steps thread t can take.
proc(t) ==
    \/ push_alloc(t)
    \/ push_alloc_fail(t)
    \/ push_lock(t)
    \/ push_data(t)
    \/ push_link(t)
    \/ push_tail(t)
    \/ push_unlock(t)
    \/ push_notify(t)
    \/ get_tail_lock(t)
    \/ get_tail_return(t)
    \/ pop_call(t)
    \/ pop_lock(t)
    \/ pop_check(t)
    \/ spurious_wake(t)
    \/ pop_wake(t)
    \/ pop_copy(t)
    \/ pop_advance(t)
    \/ pop_delete(t)
    \/ pop_return(t)
    \/ try_call(t)
    \/ try_lock(t)
    \/ try_check(t)
    \/ try_copy(t)
    \/ try_advance(t)
    \/ try_delete(t)
    \/ try_return(t)
    \/ empty_call(t)
    \/ empty_lock(t)
    \/ empty_return(t)
    \/ call_end(t)

Next == \E t \in Threads : proc(t)

Spec == Init /\ [][Next]_vars

\* One producer and one consumer: the first thread only pushes, the second
\* only calls the blocking pop.
producer(t) ==
    \/ push_alloc(t)
    \/ push_lock(t)
    \/ push_data(t)
    \/ push_link(t)
    \/ push_tail(t)
    \/ push_unlock(t)
    \/ push_notify(t)
    \/ call_end(t)

consumer(t) ==
    \/ pop_call(t)
    \/ pop_lock(t)
    \/ get_tail_lock(t)
    \/ get_tail_return(t)
    \/ pop_check(t)
    \/ spurious_wake(t)
    \/ pop_wake(t)
    \/ pop_copy(t)
    \/ pop_advance(t)
    \/ pop_delete(t)
    \/ pop_return(t)
    \/ call_end(t)

\* The first thread and the last.
Producer == CHOOSE t \in Threads : \A u \in Threads : t <= u
Consumer == CHOOSE t \in Threads : \A u \in Threads : u <= t

NextSPSC ==
    \/ \E t \in {Producer} : producer(t)
    \/ \E t \in {Consumer} : consumer(t)

SpecSPSC == Init /\ [][NextSPSC]_vars

\* ------------------------------------------------------------- exceptions
\* T's copy constructor and copy assignment may throw (std::string does when
\* it cannot allocate).  The exception leaves the member function, the lock
\* objects unlock on the way out, and the caller gets no result.

\* Mutant of pop_copy_throw: the payload is copied after the node has been
\* taken off the chain and deleted, so the exception leaves with Head
\* already advanced.
pop_copy_throw_detached(t) ==
    /\ pc[t] = "pop_copy"
    /\ Live(head)
    /\ head' = next[head]
    /\ st' = [st EXCEPT ![head] = "freed"]
    /\ hist' = Append(hist, <<"pop", data[head]>>)
    /\ HeadMutex' = IF HeadMutex = t THEN NoThread ELSE HeadMutex
    /\ rv' = [rv EXCEPT ![t] = "exception"]
    /\ pc' = [pc EXCEPT ![t] = "done"]
    /\ UNCHANGED <<tail, data, next, TailMutex, cv, op, pdata, newdummy, tl,
                   datareturned, value, oldelement, nPush, fault>>
    /\ UNCHANGED siblings

\* line 84: the copy construction of datareturned from Head->data throws;
\* head_lock unlocks.
pop_copy_throw(t) ==
    /\ pc[t] = "pop_copy"
    /\ fault' = Access(head, "read")
    /\ HeadMutex' = IF HeadMutex = t THEN NoThread ELSE HeadMutex
    /\ rv' = [rv EXCEPT ![t] = "exception"]
    /\ pc' = [pc EXCEPT ![t] = "done"]
    /\ UNCHANGED <<head, tail, heap, TailMutex, cv, op, pdata, newdummy, tl,
                   datareturned, value, oldelement, nPush, hist>>
    /\ UNCHANGED siblings

\* line 95: return datareturned.  When the build does not elide the copy of
\* the local into the return value, T's move or copy constructor runs here
\* and may throw; head_lock unlocks.
pop_return_throw(t) ==
    /\ pc[t] = "pop_ret"
    /\ HeadMutex' = IF HeadMutex = t THEN NoThread ELSE HeadMutex
    /\ rv' = [rv EXCEPT ![t] = "exception"]
    /\ oldelement' = [oldelement EXCEPT ![t] = NULL]
    /\ pc' = [pc EXCEPT ![t] = "done"]
    /\ UNCHANGED <<head, tail, heap, TailMutex, cv, op, pdata, newdummy, tl,
                   datareturned, value, nPush, hist, fault>>
    /\ UNCHANGED siblings

\* line 107: the copy assignment value = Head->data throws, leaving the
\* caller's variable as it was or assigned; head_lock unlocks.
try_copy_throw(t) ==
    /\ pc[t] = "try_copy"
    /\ \E v \in {value[t]} \cup ReadData(head) : value' = [value EXCEPT ![t] = v]
    /\ fault' = Access(head, "read")
    /\ HeadMutex' = IF HeadMutex = t THEN NoThread ELSE HeadMutex
    /\ rv' = [rv EXCEPT ![t] = "exception"]
    /\ pc' = [pc EXCEPT ![t] = "done"]
    /\ UNCHANGED <<head, tail, heap, TailMutex, cv, op, pdata, newdummy, tl,
                   datareturned, oldelement, nPush, hist>>
    /\ UNCHANGED siblings

\* line 60: the copy assignment Tail->data = data throws, leaving the dummy's
\* payload as it was or assigned; tail_lock unlocks, and newdummy, the only
\* pointer to the node of line 53, goes out of scope.  Line 67 is not reached.
push_data_throw(t) ==
    /\ pc[t] = "push_data"
    /\ \E v \in {pdata[t]} \cup ReadData(tail) :
           data' = IF Live(tail) THEN [data EXCEPT ![tail] = v] ELSE data
    /\ fault' = Access(tail, "write")
    /\ TailMutex' = IF TailMutex = t THEN NoThread ELSE TailMutex
    /\ rv' = [rv EXCEPT ![t] = "exception"]
    /\ pdata' = [pdata EXCEPT ![t] = DefaultT]
    /\ newdummy' = [newdummy EXCEPT ![t] = NULL]
    /\ pc' = [pc EXCEPT ![t] = "done"]
    /\ UNCHANGED <<head, tail, next, st, HeadMutex, cv, op, tl, datareturned,
                   value, oldelement, nPush, hist>>
    /\ UNCHANGED siblings

\* ------------------------------------------------------------- teardown
\* ~CustomQueue(), line 40: the owner destroys the queue once every thread
\* that used it has ended (no call is in progress).
destructor_call ==
    /\ \A t \in DOMAIN pc : pc[t] \in {"idle", "done"}
    /\ pc' = [t \in DOMAIN pc |-> "joined"]
    /\ op' = [t \in DOMAIN pc |-> "none"]
    /\ rv' = [t \in DOMAIN pc |-> "none"]
    /\ datareturned' = [t \in DOMAIN pc |-> DefaultT]
    /\ value' = [t \in DOMAIN pc |-> CallerValue]
    /\ UNCHANGED <<head, tail, heap, locks, cv, pdata, newdummy, tl,
                   oldelement, nPush, hist, fault>>
    /\ UNCHANGED siblings

\* line 42-47: while (Head != nullptr) { temp = Head; Head = Head->next;
\* delete temp; }, one iteration.
destructor_loop ==
    /\ \A t \in DOMAIN pc : pc[t] = "joined"
    /\ head # NULL
    /\ \E n \in ReadNext(head) : head' = n
    /\ st' = IF Live(head) THEN [st EXCEPT ![head] = "freed"] ELSE st
    /\ fault' = IF Live(head) THEN fault ELSE fault \cup {"read", "delete"}
    /\ UNCHANGED <<tail, data, next, locks, cv, op, pc, locals, nPush, hist>>
    /\ UNCHANGED siblings

\* line 42, 48: Head == nullptr ends the loop and the destructor.
destructor_return ==
    /\ \A t \in DOMAIN pc : pc[t] = "joined"
    /\ head = NULL
    /\ pc' = [t \in DOMAIN pc |-> "destroyed"]
    /\ UNCHANGED <<head, tail, heap, locks, cv, op, locals, nPush, hist, fault>>
    /\ UNCHANGED siblings

\* The steps of try_pop.
try_popper(t) ==
    \/ try_call(t)
    \/ try_lock(t)
    \/ try_check(t)
    \/ try_copy(t)
    \/ try_advance(t)
    \/ try_delete(t)
    \/ try_return(t)

\* A queue of a T whose copies may throw: the first thread pushes, the others
\* call pop and try_pop, and the owner destroys the queue in the end.
NextThrowing ==
    \/ \E t \in {Producer} : producer(t)
    \/ \E t \in {Producer} : push_data_throw(t)
    \/ \E t \in Threads \ {Producer} : consumer(t)
    \/ \E t \in Threads \ {Producer} : try_popper(t)
    \/ \E t \in Threads \ {Producer} : pop_copy_throw(t)
    \/ \E t \in Threads \ {Producer} : pop_return_throw(t)
    \/ \E t \in Threads \ {Producer} : try_copy_throw(t)
    \/ destructor_call
    \/ destructor_loop
    \/ destructor_return

SpecThrowing == Init /\ [][NextThrowing]_vars

\* ------------------------------------------------------------- the stacks
\* ThreadSafeStack of ThreadSafeStack.cpp (a std::stack<T> behind the mutex
\* m; its steps are named Stack_...) and ThreadSafeStack of
\* ThreadSafeStack2.cpp (a linked list of Element behind Mutex; Stack2_...).
\* Both files define the same class template, so a program includes one of
\* them, and its threads share one stack of that class.  Element is the
\* struct of the queue, so data, next and st hold the nodes.

\* What the queue alone owns.
queue == <<head, tail, HeadMutex, TailMutex, cv, pdata, newdummy, tl>>

\* ThreadSafeStack() of the file the program includes; there is no queue and
\* no SpinLock.
InitStacks ==
    /\ head = NULL
    /\ tail = NULL
    /\ data = [n \in Nodes |-> DefaultT]
    /\ next = [n \in Nodes |-> NULL]
    /\ st = [n \in Nodes |-> "unalloc"]
    /\ HeadMutex = NoThread
    /\ TailMutex = NoThread
    /\ cv = {}
    /\ op = [t \in Threads |-> "none"]
    /\ pc = [t \in Threads |-> "idle"]
    /\ pdata = [t \in Threads |-> DefaultT]
    /\ newdummy = [t \in Threads |-> NULL]
    /\ tl = [t \in Threads |-> NULL]
    /\ datareturned = [t \in Threads |-> DefaultT]
    /\ value = [t \in Threads |-> CallerValue]
    /\ oldelement = [t \in Threads |-> NULL]
    /\ rv = [t \in Threads |-> "none"]
    /\ nPush = 0
    /\ hist = <<>>
    /\ fault = {}
    /\ flag = FALSE
    /\ was_already_locked = <<>>
    /\ included \in {"ThreadSafeStack.cpp", "ThreadSafeStack2.cpp"}
    /\ sdata = <<>>
    /\ m = NoThread
    /\ val = [t \in Threads |-> DefaultT]
    /\ Top = NULL
    /\ Mutex = NoThread
    /\ newElement = [t \in Threads |-> NULL]

\* ThreadSafeStack.cpp line 23: a thread calls push(value).
Stack_push_call(t) ==
    /\ pc[t] = "idle"
    /\ included = "ThreadSafeStack.cpp"
    /\ nPush < MaxPush
    /\ nPush' = nPush + 1
    /\ value' = [value EXCEPT ![t] = nPush + 1]
    /\ op' = [op EXCEPT ![t] = "Stack::push"]
    /\ pc' = [pc EXCEPT ![t] = "Stack_push_lock"]
    /\ UNCHANGED <<queue, heap, datareturned, oldelement, rv, hist, fault,
                   siblings>>

\* line 24: std::lock_guard lock(m).
Stack_push_lock(t) ==
    /\ pc[t] = "Stack_push_lock"
    /\ m = NoThread
    /\ m' = t
    /\ pc' = [pc EXCEPT ![t] = "Stack_push_data"]
    /\ UNCHANGED <<queue, heap, op, datareturned, value, oldelement, rv, nPush,
                   hist, fault, spin, included, sdata, val, Top,
                   Mutex, newElement>>

\* line 25: data.push(value).
Stack_push_data(t) ==
    /\ pc[t] = "Stack_push_data"
    /\ sdata' = Append(sdata, value[t])
    /\ hist' = Append(hist, <<"Stack::push", value[t]>>)
    /\ pc' = [pc EXCEPT ![t] = "Stack_push_ret"]
    /\ UNCHANGED <<queue, heap, op, datareturned, value, oldelement, rv, nPush,
                   fault, spin, included, m, val, Top, Mutex,
                   newElement>>

\* line 26: push returns; lock unlocks.
Stack_push_return(t) ==
    /\ pc[t] = "Stack_push_ret"
    /\ m' = IF m = t THEN NoThread ELSE m
    /\ rv' = [rv EXCEPT ![t] = "void"]
    /\ pc' = [pc EXCEPT ![t] = "done"]
    /\ UNCHANGED <<queue, heap, op, datareturned, value, oldelement, nPush,
                   hist, fault, spin, included, sdata, val, Top,
                   Mutex, newElement>>

\* line 28: a thread calls pop().
Stack_pop_call(t) ==
    /\ pc[t] = "idle"
    /\ included = "ThreadSafeStack.cpp"
    /\ op' = [op EXCEPT ![t] = "Stack::pop"]
    /\ pc' = [pc EXCEPT ![t] = "Stack_pop_lock"]
    /\ val' = [val EXCEPT ![t] = DefaultT]
    /\ UNCHANGED <<queue, heap, datareturned, value, oldelement, rv, nPush,
                   hist, fault, spin, included, sdata, m, Top, Mutex,
                   newElement>>

\* line 29: std::lock_guard lock(m).
Stack_pop_lock(t) ==
    /\ pc[t] = "Stack_pop_lock"
    /\ m = NoThread
    /\ m' = t
    /\ pc' = [pc EXCEPT ![t] = "Stack_pop_check"]
    /\ UNCHANGED <<queue, heap, op, datareturned, value, oldelement, rv, nPush,
                   hist, fault, spin, included, sdata, val, Top,
                   Mutex, newElement>>

\* line 30-32: if (data.empty()) throw std::runtime_error(...); lock unlocks
\* as the exception leaves.
Stack_pop_check(t) ==
    /\ pc[t] = "Stack_pop_check"
    /\ IF sdata = <<>>
         THEN /\ m' = IF m = t THEN NoThread ELSE m
              /\ rv' = [rv EXCEPT ![t] = "runtime_error"]
              /\ pc' = [pc EXCEPT ![t] = "done"]
         ELSE /\ pc' = [pc EXCEPT ![t] = "Stack_pop_top"]
              /\ UNCHANGED <<m, rv>>
    /\ UNCHANGED <<queue, heap, op, datareturned, value, oldelement, nPush,
                   hist, fault, spin, included, sdata, val, Top,
                   Mutex, newElement>>

\* line 33: T val = data.top(); undefined on an empty std::stack.
Stack_pop_top(t) ==
    /\ pc[t] = "Stack_pop_top"
    /\ \E v \in (IF sdata # <<>> THEN {sdata[Len(sdata)]}
                                ELSE Values \cup {DefaultT}) :
           val' = [val EXCEPT ![t] = v]
    /\ fault' = IF sdata # <<>> THEN fault ELSE fault \cup {"read"}
    /\ pc' = [pc EXCEPT ![t] = "Stack_pop_pop"]
    /\ UNCHANGED <<queue, heap, op, datareturned, value, oldelement, rv, nPush,
                   hist, spin, included, sdata, m, Top, Mutex,
                   newElement>>

\* line 34: data.pop(); undefined on an empty std::stack.
Stack_pop_pop(t) ==
    /\ pc[t] = "Stack_pop_pop"
    /\ sdata' = IF sdata # <<>> THEN SubSeq(sdata, 1, Len(sdata) - 1) ELSE sdata
    /\ fault' = IF sdata # <<>> THEN fault ELSE fault \cup {"write"}
    /\ hist' = Append(hist, <<"Stack::pop", val[t]>>)
    /\ pc' = [pc EXCEPT ![t] = "Stack_pop_ret"]
    /\ UNCHANGED <<queue, heap, op, datareturned, value, oldelement, rv, nPush,
                   spin, included, m, val, Top, Mutex, newElement>>

\* line 35-36: return val; lock unlocks.
Stack_pop_return(t) ==
    /\ pc[t] = "Stack_pop_ret"
    /\ m' = IF m = t THEN NoThread ELSE m
    /\ rv' = [rv EXCEPT ![t] = "value"]
    /\ pc' = [pc EXCEPT ![t] = "done"]
    /\ UNCHANGED <<queue, heap, op, datareturned, value, oldelement, nPush,
                   hist, fault, spin, included, sdata, val, Top,
                   Mutex, newElement>>

\* ThreadSafeStack2.cpp line 33-35: a thread calls push(value);
\* newElement = new Element(), outside the lock.
Stack2_push_alloc(t) ==
    /\ pc[t] = "idle"
    /\ included = "ThreadSafeStack2.cpp"
    /\ nPush < MaxPush
    /\ Unalloc # {}
    /\ LET n == NewElement IN
        /\ st' = [st EXCEPT ![n] = "live"]
        /\ data' = [data EXCEPT ![n] = DefaultT]
        /\ next' = [next EXCEPT ![n] = NULL]
        /\ newElement' = [newElement EXCEPT ![t] = n]
    /\ nPush' = nPush + 1
    /\ value' = [value EXCEPT ![t] = nPush + 1]
    /\ op' = [op EXCEPT ![t] = "Stack2::push"]
    /\ pc' = [pc EXCEPT ![t] = "Stack2_push_data"]
    /\ UNCHANGED <<queue, datareturned, oldelement, rv, hist, fault, spin, included, sdata, m, val, Top, Mutex>>

\* line 36: newElement->data = value.
Stack2_push_data(t) ==
    /\ pc[t] = "Stack2_push_data"
    /\ data' = IF Live(newElement[t])
                 THEN [data EXCEPT ![newElement[t]] = value[t]] ELSE data
    /\ fault' = Access(newElement[t], "write")
    /\ pc' = [pc EXCEPT ![t] = "Stack2_push_lock"]
    /\ UNCHANGED <<queue, next, st, op, datareturned, value, oldelement, rv,
                   nPush, hist, siblings>>

\* line 38: std::lock_guard lock(Mutex).
Stack2_push_lock(t) ==
    /\ pc[t] = "Stack2_push_lock"
    /\ Mutex = NoThread
    /\ Mutex' = t
    /\ pc' = [pc EXCEPT ![t] = "Stack2_push_link"]
    /\ UNCHANGED <<queue, heap, op, datareturned, value, oldelement, rv, nPush,
                   hist, fault, spin, included, sdata, m, val, Top,
                   newElement>>

\* line 40: newElement->next = Top.
Stack2_push_link(t) ==
    /\ pc[t] = "Stack2_push_link"
    /\ next' = IF Live(newElement[t])
                 THEN [next EXCEPT ![newElement[t]] = Top] ELSE next
    /\ fault' = Access(newElement[t], "write")
    /\ pc' = [pc EXCEPT ![t] = "Stack2_push_top"]
    /\ UNCHANGED <<queue, data, st, op, datareturned, value, oldelement, rv,
                   nPush, hist, siblings>>

\* line 41: Top = newElement.
Stack2_push_top(t) ==
    /\ pc[t] = "Stack2_push_top"
    /\ Top' = newElement[t]
    /\ hist' = Append(hist, <<"Stack2::push", value[t]>>)
    /\ pc' = [pc EXCEPT ![t] = "Stack2_push_ret"]
    /\ UNCHANGED <<queue, heap, op, datareturned, value, oldelement, rv, nPush,
                   fault, spin, included, sdata, m, val, Mutex,
                   newElement>>

\* line 44: push returns; lock unlocks.
Stack2_push_return(t) ==
    /\ pc[t] = "Stack2_push_ret"
    /\ Mutex' = IF Mutex = t THEN NoThread ELSE Mutex
    /\ newElement' = [newElement EXCEPT ![t] = NULL]
    /\ rv' = [rv EXCEPT ![t] = "void"]
    /\ pc' = [pc EXCEPT ![t] = "done"]
    /\ UNCHANGED <<queue, heap, op, datareturned, value, oldelement, nPush,
                   hist, fault, spin, included, sdata, m, val, Top>>

\* line 46: a thread calls pop().
Stack2_pop_call(t) ==
    /\ pc[t] = "idle"
    /\ included = "ThreadSafeStack2.cpp"
    /\ op' = [op EXCEPT ![t] = "Stack2::pop"]
    /\ pc' = [pc EXCEPT ![t] = "Stack2_pop_lock"]
    /\ UNCHANGED <<queue, heap, datareturned, value, oldelement, rv, nPush,
                   hist, fault, siblings>>

\* line 48: std::lock_guard lock(Mutex).
Stack2_pop_lock(t) ==
    /\ pc[t] = "Stack2_pop_lock"
    /\ Mutex = NoThread
    /\ Mutex' = t
    /\ pc' = [pc EXCEPT ![t] = "Stack2_pop_check"]
    /\ UNCHANGED <<queue, heap, op, datareturned, value, oldelement, rv, nPush,
                   hist, fault, spin, included, sdata, m, val, Top,
                   newElement>>

\* Mutant of Stack2_pop_check: pop goes on to Top->data without the test
\* for nullptr.
Stack2_pop_check_missing(t) ==
    /\ pc[t] = "Stack2_pop_check"
    /\ pc' = [pc EXCEPT ![t] = "Stack2_pop_copy"]
    /\ UNCHANGED <<queue, heap, op, datareturned, value, oldelement, rv, nPush,
                   hist, fault, siblings>>

\* line 50-53: if (Top == nullptr) throw std::runtime_error(...); lock
\* unlocks as the exception leaves.
Stack2_pop_check(t) ==
    /\ pc[t] = "Stack2_pop_check"
    /\ IF Top = NULL
         THEN /\ Mutex' = IF Mutex = t THEN NoThread ELSE Mutex
              /\ rv' = [rv EXCEPT ![t] = "runtime_error"]
              /\ pc' = [pc EXCEPT ![t] = "done"]
         ELSE /\ pc' = [pc EXCEPT ![t] = "Stack2_pop_copy"]
              /\ UNCHANGED <<Mutex, rv>>
    /\ UNCHANGED <<queue, heap, op, datareturned, value, oldelement, nPush,
                   hist, fault, spin, included, sdata, m, val, Top,
                   newElement>>

\* line 55: T datareturned = Top->data.
Stack2_pop_copy(t) ==
    /\ pc[t] = "Stack2_pop_copy"
    /\ \E v \in ReadData(Top) : datareturned' = [datareturned EXCEPT ![t] = v]
    /\ fault' = Access(Top, "read")
    /\ pc' = [pc EXCEPT ![t] = "Stack2_pop_advance"]
    /\ UNCHANGED <<queue, heap, op, value, oldelement, rv, nPush, hist,
                   siblings>>

\* line 56-57: oldelement = Top; Top = Top->next.
Stack2_pop_advance(t) ==
    /\ pc[t] = "Stack2_pop_advance"
    /\ oldelement' = [oldelement EXCEPT ![t] = Top]
    /\ \E n \in ReadNext(Top) : Top' = n
    /\ fault' = Access(Top, "read")
    /\ hist' = Append(hist, <<"Stack2::pop", datareturned[t]>>)
    /\ pc' = [pc EXCEPT ![t] = "Stack2_pop_delete"]
    /\ UNCHANGED <<queue, heap, op, datareturned, value, rv, nPush, spin, included, sdata, m, val, Mutex, newElement>>

\* line 59: delete oldelement.
Stack2_pop_delete(t) ==
    /\ pc[t] = "Stack2_pop_delete"
    /\ st' = IF Live(oldelement[t]) THEN [st EXCEPT ![oldelement[t]] = "freed"] ELSE st
    /\ fault' = Access(oldelement[t], "delete")
    /\ pc' = [pc EXCEPT ![t] = "Stack2_pop_ret"]
    /\ UNCHANGED <<queue, data, next, op, datareturned, value, oldelement, rv,
                   nPush, hist, siblings>>

\* line 60-62: return datareturned; lock unlocks.
Stack2_pop_return(t) ==
    /\ pc[t] = "Stack2_pop_ret"
    /\ Mutex' = IF Mutex = t THEN NoThread ELSE Mutex
    /\ oldelement' = [oldelement EXCEPT ![t] = NULL]
    /\ rv' = [rv EXCEPT ![t] = "value"]
    /\ pc' = [pc EXCEPT ![t] = "done"]
    /\ UNCHANGED <<queue, heap, op, datareturned, value, nPush, hist, fault,
                   spin, included, sdata, m, val, Top, newElement>>

\* The steps thread t can take on the stack.
stack(t) ==
    \/ Stack_push_call(t)
    \/ Stack_push_lock(t)
    \/ Stack_push_data(t)
    \/ Stack_push_return(t)
    \/ Stack_pop_call(t)
    \/ Stack_pop_lock(t)
    \/ Stack_pop_check(t)
    \/ Stack_pop_top(t)
    \/ Stack_pop_pop(t)
    \/ Stack_pop_return(t)
    \/ Stack2_push_alloc(t)
    \/ Stack2_push_data(t)
    \/ Stack2_push_lock(t)
    \/ Stack2_push_link(t)
    \/ Stack2_push_top(t)
    \/ Stack2_push_return(t)
    \/ Stack2_pop_call(t)
    \/ Stack2_pop_lock(t)
    \/ Stack2_pop_check(t)
    \/ Stack2_pop_copy(t)
    \/ Stack2_pop_advance(t)
    \/ Stack2_pop_delete(t)
    \/ Stack2_pop_return(t)
    \/ call_end(t)

NextStacks == \E t \in Threads : stack(t)

SpecStacks == InitStacks /\ [][NextStacks]_vars

\* ------------------------------------------------------------- the spin lock
\* src/SpinLock.cpp.  The threads that share one SpinLock; each of them calls
\* lock(), stays in its critical section, calls unlock(), and starts over.
SpinThreads == 1..NumSpinners

\* The rest of the state: there is no queue and no stack.
notSpin == <<queue, heap, op, datareturned, value, oldelement, rv, nPush,
               hist, fault, sdata, m, val, Top, Mutex, newElement, included>>

\* line 5: std::atomic_flag flag = ATOMIC_FLAG_INIT.  was_already_locked is
\* the local of lock(); it has no value before the first call (FALSE stands
\* for that, and line 9 overwrites it).
InitSpin ==
    /\ head = NULL
    /\ tail = NULL
    /\ data = [n \in Nodes |-> DefaultT]
    /\ next = [n \in Nodes |-> NULL]
    /\ st = [n \in Nodes |-> "unalloc"]
    /\ HeadMutex = NoThread
    /\ TailMutex = NoThread
    /\ cv = {}
    /\ op = [t \in SpinThreads |-> "none"]
    /\ pc = [t \in SpinThreads |-> "idle"]
    /\ pdata = <<>>
    /\ newdummy = <<>>
    /\ tl = <<>>
    /\ datareturned = <<>>
    /\ value = <<>>
    /\ oldelement = <<>>
    /\ rv = <<>>
    /\ nPush = 0
    /\ hist = <<>>
    /\ fault = {}
    /\ flag = FALSE
    /\ was_already_locked = [t \in SpinThreads |-> FALSE]
    /\ sdata = <<>>
    /\ m = NoThread
    /\ val = <<>>
    /\ Top = NULL
    /\ Mutex = NoThread
    /\ newElement = <<>>
    /\ included = "SpinLock.cpp"

\* lines 8-9: a thread calls lock(); bool was_already_locked = true.
SpinLock_lock_call(t) ==
    /\ pc[t] = "idle"
    /\ was_already_locked' = [was_already_locked EXCEPT ![t] = TRUE]
    /\ pc' = [pc EXCEPT ![t] = "SpinLock_lock_while"]
    /\ UNCHANGED <<flag, notSpin>>

\* line 11: while (was_already_locked == true).
SpinLock_lock_while(t) ==
    /\ pc[t] = "SpinLock_lock_while"
    /\ pc' = [pc EXCEPT ![t] = IF was_already_locked[t] = TRUE
                                 THEN "SpinLock_lock_test_and_set"
                                 ELSE "SpinLock_lock_ret"]
    /\ UNCHANGED <<flag, was_already_locked, notSpin>>

\* The same with a test_and_set that stores true and reports false whatever
\* the flag held.
SpinLock_lock_test_and_set_blind(t) ==
    /\ pc[t] = "SpinLock_lock_test_and_set"
    /\ was_already_locked' = [was_already_locked EXCEPT ![t] = FALSE]
    /\ flag' = TRUE
    /\ pc' = [pc EXCEPT ![t] = "SpinLock_lock_while"]
    /\ UNCHANGED notSpin

\* line 13: was_already_locked = flag.test_and_set(memory_order_acquire): one
\* atomic read-modify-write, which reads the last value in the flag's
\* modification order, stores true and yields the value read.
SpinLock_lock_test_and_set(t) ==
    /\ pc[t] = "SpinLock_lock_test_and_set"
    /\ was_already_locked' = [was_already_locked EXCEPT ![t] = flag]
    /\ flag' = TRUE
    /\ pc' = [pc EXCEPT ![t] = "SpinLock_lock_while"]
    /\ UNCHANGED notSpin

\* line 19: lock() returns; the caller is in its critical section.
SpinLock_lock_return(t) ==
    /\ pc[t] = "SpinLock_lock_ret"
    /\ pc' = [pc EXCEPT ![t] = "critical"]
    /\ UNCHANGED <<flag, was_already_locked, notSpin>>

\* line 21: the thread that holds the lock calls unlock().
SpinLock_unlock_call(t) ==
    /\ pc[t] = "critical"
    /\ pc' = [pc EXCEPT ![t] = "SpinLock_unlock_clear"]
    /\ UNCHANGED <<flag, was_already_locked, notSpin>>

\* line 23: flag.clear(memory_order_release).
SpinLock_unlock_clear(t) ==
    /\ pc[t] = "SpinLock_unlock_clear"
    /\ flag' = FALSE
    /\ pc' = [pc EXCEPT ![t] = "SpinLock_unlock_ret"]
    /\ UNCHANGED <<was_already_locked, notSpin>>

\* line 24: unlock() returns.
SpinLock_unlock_return(t) ==
    /\ pc[t] = "SpinLock_unlock_ret"
    /\ pc' = [pc EXCEPT ![t] = "idle"]
    /\ UNCHANGED <<flag, was_already_locked, notSpin>>

spinner(t) ==
    \/ SpinLock_lock_call(t)
    \/ SpinLock_lock_while(t)
    \/ SpinLock_lock_test_and_set(t)
    \/ SpinLock_lock_return(t)
    \/ SpinLock_unlock_call(t)
    \/ SpinLock_unlock_clear(t)
    \/ SpinLock_unlock_return(t)

NextSpin == \E t \in SpinThreads : spinner(t)

SpecSpin == InitSpin /\ [][NextSpin]_vars

\* ------------------------------------------------------------- observations
\* The values enqueued so far, in the order Tail moved past them.
PushedSeq ==
    LET s == SelectSeq(hist, LAMBDA e : e[1] = "push")
    IN  [i \in 1..Len(s) |-> s[i][2]]

\* The values dequeued so far, in the order Head moved past them.
PoppedSeq ==
    LET s == SelectSeq(hist, LAMBDA e : e[1] = "pop")
    IN  [i \in 1..Len(s) |-> s[i][2]]

\* The nodes reached from n by following next, at most k of them.
RECURSIVE Walk(_, _)
Walk(n, k) ==
    IF n \notin Nodes \/ k = 0 THEN <<>> ELSE <<n>> \o Walk(next[n], k - 1)

\* The nodes reached from Head.
Chain == Walk(head, Cardinality(Nodes))

\* The nodes from Head up to, not including, Tail (all of Chain when Tail is
\* not on it).
RECURSIVE UpTo(_, _)
UpTo(s, n) ==
    IF s = <<>> \/ s[1] = n THEN <<>> ELSE <<s[1]>> \o UpTo(SubSeq(s, 2, Len(s)), n)

\* The payloads the queue holds, oldest first.
Contents == LET c == UpTo(Chain, tail) IN [i \in 1..Len(c) |-> data[c[i]]]

\* How often v occurs in s.
Count(s, v) == Cardinality({i \in 1..Len(s) : s[i] = v})

\* Every enqueue so far came before every dequeue.
PushesFirst ==
    \A i, j \in 1..Len(hist) :
        (hist[i][1] = "push" /\ hist[j][1] = "pop") => i < j

\* ------------------------------------------------------------- claims
\* C1: FIFO order.  When the pushes v1..vn have all been made before the
\* first pop, the pops (pop or successful try_pop) made since have returned
\* v1, v2, ... in that order: the k-th value popped is the k-th value pushed.
C1_FifoOrder ==
    PushesFirst =>
        LET popped == PoppedSeq
            pushed == PushedSeq
        IN  /\ Len(popped) <= Len(pushed)
            /\ \A k \in 1..Len(popped) : popped[k] = pushed[k]

\* C1 witness: MaxPush pushes followed by as many pops, nothing interleaved.
C1_Witness ==
    /\ PushesFirst
    /\ Len(PushedSeq) = MaxPush
    /\ Len(PoppedSeq) = MaxPush
    /\ Len(PushedSeq) >= 2

\* C2: with one producer and one consumer (SpecSPSC), in every interleaving
\* no value is lost and none is returned twice: each value is, as many times
\* as it was pushed, either among the popped values or still in the queue;
\* and once the consumer has received MaxPush values, the popped values are
\* exactly the pushed values 1..MaxPush, each once.
C2_NoLossNoDup ==
    /\ \A v \in Values \cup {DefaultT, CallerValue} :
           Count(PoppedSeq, v) + Count(Contents, v) = Count(PushedSeq, v)
    /\ Len(PoppedSeq) = MaxPush =>
           \A v \in Values : Count(PoppedSeq, v) = 1 /\ Count(PushedSeq, v) = 1

\* C2 witness: the consumer has received all MaxPush values, and popped the
\* first of them while the producer was still pushing.
C2_Witness ==
    /\ Len(PoppedSeq) = MaxPush
    /\ Len(PushedSeq) = MaxPush
    /\ ~PushesFirst

\* The consumer-side member functions.
ConsumerOps == {"pop", "try_pop", "empty"}

\* Thread t is inside a call and has not returned from it.
InCall(t) == pc[t] \notin {"idle", "done"}

\* Thread t is inside a call and cannot take a step: it waits for a mutex.
\* (A thread blocked in cv.wait can still wake spuriously.)
Stuck(t) == InCall(t) /\ ~ENABLED proc(t)

\* Thread t is blocked in cv.wait and nothing has woken it.
Waiting(t) == pc[t] = "pop_wait" /\ t \in cv

\* C3: blocking pop wakes on push.  A thread blocked in cv.wait while the
\* queue holds a value has a wake-up coming: some other call is still in
\* progress (a push that has yet to notify, or a consumer that will take the
\* value).  Otherwise only a further push or a spurious wake-up can end the
\* wait, and the pop does not return the value that was pushed.
C3_PopWakesOnPush ==
    \A t \in Threads :
        (Waiting(t) /\ head # tail) =>
            \E u \in Threads \ {t} : InCall(u) /\ ~Waiting(u)

\* Thread t is between the acquisition of HeadMutex and its release.
InHeadSection(t) ==
    /\ op[t] \in ConsumerOps
    /\ pc[t] \in {"get_tail", "get_tail_ret", "pop_check", "pop_copy",
                  "pop_advance", "pop_delete", "pop_ret", "try_check",
                  "try_copy", "try_advance", "try_delete", "try_ret",
                  "empty_ret"}

\* C4: concurrent consumers are safe.  A thread between the acquisition of
\* HeadMutex and its release in pop, try_pop or empty owns HeadMutex, so at
\* most one thread is there; no value is dequeued twice, none is dequeued
\* that was not enqueued, and no node is deleted twice.
C4_ConsumersExclusive ==
    /\ \A t \in Threads : InHeadSection(t) => HeadMutex = t
    /\ LET popped == PoppedSeq
           pushed == PushedSeq
       IN  /\ \A v \in Values \cup {DefaultT, CallerValue} :
                  Count(popped, v) <= Count(pushed, v)
           /\ \A v \in Values : Count(popped, v) <= 1
    /\ "delete" \notin fault

\* C4 witness: one consumer is about to delete the node it dequeued while
\* another has called try_pop, waits for HeadMutex, and a value is left for it.
C4_Witness ==
    \E t, u \in Threads :
        /\ t # u
        /\ pc[t] = "pop_delete"
        /\ pc[u] = "try_lock"
        /\ head # tail

PushStep(p) == op'[p] = "push" /\ pc'[p] # pc[p]

TryPopStep(t) == op'[t] = "try_pop" /\ pc'[t] # pc[t]

\* The step leaves thread t before line 107 or at "return false".
BeforeExtraction(t) ==
    \/ pc'[t] \in {"try_lock", "get_tail", "get_tail_ret", "try_check"}
    \/ pc'[t] = "done" /\ rv'[t] = "false"

\* C7: try_pop on an empty queue returns false at once.  The steps of a
\* try_pop up to and including "return false" leave Head, Tail, every node
\* and the caller's variable as they were and never put the thread on the
\* condition variable; when the queue is empty at the check of line 102 that
\* step returns false with HeadMutex released; only pop ever waits on cv.
C7_TryPopEmpty ==
    /\ [][\A t \in Threads :
            (TryPopStep(t) /\ BeforeExtraction(t)) =>
                /\ UNCHANGED <<head, tail, data, next, st, cv>>
                /\ value'[t] = CallerValue]_vars
    /\ [][\A t \in Threads :
            (op[t] = "try_pop" /\ pc[t] = "try_check" /\ pc'[t] # pc[t]
                /\ head = tail) =>
                /\ pc'[t] = "done"
                /\ rv'[t] = "false"
                /\ HeadMutex' # t]_vars
    /\ [](\A t \in cv : op[t] = "pop")

\* C7 witness: a try_pop has returned false on a queue that was filled and
\* drained before, the caller's variable untouched.
C7_Witness ==
    \E t \in Threads :
        /\ op[t] = "try_pop"
        /\ pc[t] = "done"
        /\ rv[t] = "false"
        /\ value[t] = CallerValue
        /\ head = tail
        /\ Len(PoppedSeq) > 0

\* C8: as long as no push has been made, the queue is one live dummy node
\* with Head = Tail and no successor, every empty() that has returned has
\* returned true and every try_pop that has returned has returned false.
C8_FreshQueue ==
    nPush = 0 =>
        /\ head = tail
        /\ {n \in Nodes : st[n] = "live"} = {head}
        /\ next[head] = NULL
        /\ \A t \in Threads :
              /\ (op[t] = "empty" /\ pc[t] = "done") => rv[t] = "true"
              /\ (op[t] = "try_pop" /\ pc[t] = "done") =>
                     (rv[t] = "false" /\ value[t] = CallerValue)

\* C8 witness: on the fresh queue one thread has got true from empty() and
\* another false from try_pop.
C8_Witness ==
    /\ nPush = 0
    /\ \E t, u \in Threads :
          /\ op[t] = "empty" /\ pc[t] = "done" /\ rv[t] = "true"
          /\ op[u] = "try_pop" /\ pc[u] = "done" /\ rv[u] = "false"

\* Thread t is in no call.
Quiet(t) == pc[t] \in {"idle", "done"}

\* As many values have been dequeued as enqueued.
Drained == Len(PushedSeq) = Len(PoppedSeq)

\* C9: after N pushes and N successful pops, with no other call in flight,
\* Head = Tail, and an empty() that returns then returns true.
C9_EmptyAfterDrain ==
    /\ []((Drained /\ \A u \in Threads : Quiet(u) \/ op[u] = "empty")
            => head = tail)
    /\ [][\A t \in Threads :
            (op[t] = "empty" /\ pc[t] = "empty_ret" /\ pc'[t] = "done"
                /\ Drained /\ \A u \in Threads \ {t} : Quiet(u)) =>
                rv'[t] = "true"]_vars

\* C9 witness: MaxPush values were pushed and popped, nothing else is in
\* flight, and empty() has returned true.
C9_Witness ==
    \E t \in Threads :
        /\ op[t] = "empty" /\ pc[t] = "done" /\ rv[t] = "true"
        /\ Len(PushedSeq) = MaxPush
        /\ Len(PoppedSeq) = MaxPush
        /\ \A u \in Threads \ {t} : pc[u] = "idle"

\* C10: a failed allocation in push reaches the caller as std::bad_alloc and
\* the step that fails leaves Head, Tail, every node, both mutexes and the
\* condition variable as they were; the thread that got the exception owns
\* no mutex and is out of push.
C10_AllocFailure ==
    /\ [][\A t \in Threads :
            (rv[t] # "bad_alloc" /\ rv'[t] = "bad_alloc") =>
                /\ UNCHANGED <<head, tail, data, next, st, HeadMutex, TailMutex, cv>>
                /\ pc'[t] = "done"]_vars
    /\ [](\A t \in Threads :
            rv[t] = "bad_alloc" =>
                /\ op[t] = "push"
                /\ pc[t] = "done"
                /\ HeadMutex # t
                /\ TailMutex # t
                /\ t \notin cv)

\* C10 witness: push has thrown std::bad_alloc on a queue that holds a value.
C10_Witness ==
    \E t \in Threads :
        /\ rv[t] = "bad_alloc"
        /\ head # tail
        /\ Len(PushedSeq) > Len(PoppedSeq)

\* The nodes on the chain from Head.
ChainNodes == LET c == Chain IN {c[i] : i \in 1..Len(c)}

\* The values enqueued and not dequeued so far, oldest first.
Pending == LET pushed == PushedSeq
           IN  SubSeq(pushed, Len(PoppedSeq) + 1, Len(pushed))

\* Head has not been advanced past Tail: the chain from Head is made of live
\* nodes and reaches Tail, its payloads up to Tail are the pending values,
\* and it is empty exactly when Head = Tail.
HeadBehindTail ==
    LET nodes == ChainNodes
        contents == Contents
    IN  /\ nodes # {}
        /\ tail \in nodes
        /\ \A n \in nodes : Live(n)
        /\ Len(PoppedSeq) <= Len(PushedSeq)
        /\ contents = Pending
        /\ (contents = <<>>) <=> (head = tail)

\* Tail is a dummy: the one node of the chain without a successor, and it
\* holds no pushed payload.
TailIsDummy ==
    /\ \A n \in ChainNodes : (next[n] = NULL) <=> (n = tail)
    /\ Live(tail) => data[tail] = DefaultT

\* A push has written to the node Tail points to (line 60, 61) and has not
\* yet moved Tail (line 62).
PushWriting == \E p \in Threads : pc[p] \in {"push_link", "push_tail"}

WaitsForHead(t) ==
    \/ pc[t] \in {"pop_lock", "try_lock", "empty_lock"}
    \/ pc[t] = "pop_wait" /\ t \notin cv

\* Thread t is at an acquisition of TailMutex (line 57 or line 24).
WaitsForTail(t) == pc[t] \in {"push_lock", "get_tail"}

\* Thread t waits on a mutex that is owned.
MutexWait(t) ==
    \/ WaitsForHead(t) /\ HeadMutex # NoThread
    \/ WaitsForTail(t) /\ TailMutex # NoThread

\* The owner of the mutex thread t is acquiring.
Owner(t) == IF WaitsForHead(t) THEN HeadMutex ELSE TailMutex

\* C15: deadlock freedom by lock order.  A thread owns both mutexes only
\* inside get_tail, with HeadMutex taken first; a thread that is acquiring
\* HeadMutex owns no mutex (get_tail never acquires it); push never owns
\* HeadMutex.  Hence a thread that waits on a mutex waits for an owner that
\* is not waiting, or for one (a consumer inside get_tail) whose own wait is
\* for an owner that is not waiting; in particular there is no state in
\* which all threads wait on a mutex.
C15_NoLockCycle ==
    [](/\ \A t \in Threads :
             /\ (HeadMutex = t /\ TailMutex = t) => pc[t] = "get_tail_ret"
             /\ pc[t] \in {"get_tail", "get_tail_ret"} => HeadMutex = t
             /\ WaitsForHead(t) => (HeadMutex # t /\ TailMutex # t)
             /\ op[t] = "push" => HeadMutex # t
             /\ MutexWait(t) =>
                   \/ ~MutexWait(Owner(t))
                   \/ (WaitsForHead(t) /\ pc[Owner(t)] = "get_tail"
                         /\ ~MutexWait(Owner(Owner(t))))
       /\ ~(\A t \in Threads : MutexWait(t)))

\* C15 witness: a try_pop inside get_tail owns both mutexes while another
\* thread waits for HeadMutex at the start of pop.
C15_Witness ==
    \E c, w \in Threads :
        /\ op[c] = "try_pop"
        /\ pc[c] = "get_tail_ret"
        /\ HeadMutex = c
        /\ TailMutex = c
        /\ pc[w] = "pop_lock"
        /\ MutexWait(w)

\* C17: a pop that waits on an empty queue does not hold HeadMutex.  A
\* thread inside cv.wait (blocked, or woken and not yet running) owns no
\* mutex; when it evaluates the predicate again it owns HeadMutex again; and
\* a thread that waits for HeadMutex waits for a thread inside its head
\* section, never for one inside cv.wait.
C17_WaitReleasesHeadMutex ==
    [](\A t \in Threads :
           /\ pc[t] = "pop_wait" => (HeadMutex # t /\ TailMutex # t)
           /\ t \in cv => pc[t] = "pop_wait"
           /\ (op[t] = "pop" /\ pc[t] \in {"get_tail", "get_tail_ret", "pop_check"})
                 => HeadMutex = t
           /\ (WaitsForHead(t) /\ HeadMutex # NoThread) =>
                 /\ pc[HeadMutex] # "pop_wait"
                 /\ InHeadSection(HeadMutex))

\* C17 witness: while one pop is blocked in cv.wait on the empty queue, a
\* try_pop owns HeadMutex and is at its emptiness check.
C17_Witness ==
    \E w, c \in Threads :
        /\ Waiting(w)
        /\ head = tail
        /\ op[c] = "try_pop"
        /\ pc[c] = "try_check"
        /\ HeadMutex = c

\* Thread p is inside push's block of lines 56-65, TailMutex acquired.
InTailSection(p) ==
    /\ op[p] = "push"
    /\ pc[p] \in {"push_data", "push_link", "push_tail", "push_unlock"}

\* This step is thread p's acquisition of TailMutex in push (line 57).
PushAcquires(p) == pc[p] = "push_lock" /\ pc'[p] = "push_data"

\* This step is thread p's advance of Tail (line 62), the last of its writes.
PushEnqueues(p) == pc[p] = "push_tail" /\ pc'[p] = "push_unlock"

\* C18: pushes are linearised by TailMutex.  A push is inside its block only
\* as the owner of TailMutex, and there its writes stay as it made them: no
\* other push writes between them.  A push acquires TailMutex only when
\* every push that acquired it before has made all three writes, and each
\* value is enqueued by the owner of TailMutex; so the values are enqueued
\* in the order in which their pushes acquired TailMutex.  And the values
\* dequeued so far are, in order, the first values enqueued.
C18_PushesLinearized ==
    /\ [](\A p \in Threads :
            /\ InTailSection(p) => TailMutex = p
            /\ pc[p] \in {"push_link", "push_tail"} => data[tail] = pdata[p]
            /\ pc[p] = "push_tail" => next[tail] = newdummy[p]
            /\ (op[p] = "push" /\ pc[p] = "push_unlock") =>
                  /\ tail = newdummy[p]
                  /\ PushedSeq # <<>>
                  /\ PushedSeq[Len(PushedSeq)] = pdata[p])
    /\ [](/\ Len(PoppedSeq) <= Len(PushedSeq)
          /\ \A k \in 1..Len(PoppedSeq) : PoppedSeq[k] = PushedSeq[k])
    /\ [][/\ \A p \in Threads :
                /\ PushAcquires(p) =>
                      /\ TailMutex' = p
                      /\ \A q \in Threads \ {p} : ~InTailSection(q)
                      /\ Count(PushedSeq, pdata[p]) = 0
                /\ PushEnqueues(p) =>
                      /\ TailMutex = p
                      /\ PushedSeq' = Append(PushedSeq, pdata[p])
          /\ PushedSeq' # PushedSeq => \E p \in Threads : PushEnqueues(p)]_vars

\* C18 witness: two concurrent pushes acquired TailMutex in the opposite
\* order of their calls (value 2 before value 1), and both values have been
\* dequeued in that order.
C18_Witness ==
    /\ Len(PushedSeq) >= 2
    /\ PushedSeq[1] > PushedSeq[2]
    /\ PoppedSeq = PushedSeq

\* Thread c is at a statement of pop or try_pop that reads Head->data or
\* Head->next (line 84, 90, 107, 111).
ReadsHead(c) == pc[c] \in {"pop_copy", "pop_advance", "try_copy", "try_advance"}

\* Thread c is at the delete of line 92 or 113.
Releases(c) == pc[c] \in {"pop_delete", "try_delete"}

\* Thread p is at a statement of push that writes to the node Tail points to
\* (line 60, 61).
WritesTail(p) == pc[p] \in {"push_data", "push_link"}

\* C19: no race on a node between the two sides.  The node a pop or try_pop
\* is about to read (Head) or release (oldelement) is live and is not the
\* node Tail points to, which is the node a push writes; a released node is
\* off the chain; Tail is read and written under TailMutex only; and no
\* node has been read, written or deleted when it was not live.
C19_NoNodeRace ==
    [](LET nodes == ChainNodes
       IN  /\ fault = {}
           /\ \A c \in Threads :
                 /\ ReadsHead(c) =>
                       (HeadMutex = c /\ Live(head) /\ head # tail)
                 /\ Releases(c) =>
                       /\ HeadMutex = c
                       /\ Live(oldelement[c])
                       /\ oldelement[c] # tail
                       /\ oldelement[c] \notin nodes
                 /\ (WritesTail(c) \/ pc[c] \in {"push_tail", "get_tail_ret"})
                       => TailMutex = c
                 /\ WritesTail(c) => (Live(tail) /\ newdummy[c] \notin nodes)
           /\ \A n \in nodes : Live(n))

\* C19 witness: a pop is about to read Head->next on the node right before
\* Tail while a push is about to write Tail->next.
C19_Witness ==
    \E c, p \in Threads :
        /\ pc[c] = "pop_advance"
        /\ pc[p] = "push_link"
        /\ Live(head)
        /\ next[head] = tail

\* ------------------------------------------------------------- wake-one
\* Several threads call the blocking pop and one more thread pushes.
Waiters == 1..NumWaiters
Notifier == NumWaiters + 1
WakeThreads == Waiters \cup {Notifier}

\* CustomQueue() with these threads around it.
InitWakeOne ==
    /\ head = 1
    /\ tail = 1
    /\ data = [n \in Nodes |-> DefaultT]
    /\ next = [n \in Nodes |-> NULL]
    /\ st = [n \in Nodes |-> IF n = 1 THEN "live" ELSE "unalloc"]
    /\ HeadMutex = NoThread
    /\ TailMutex = NoThread
    /\ cv = {}
    /\ op = [t \in WakeThreads |-> "none"]
    /\ pc = [t \in WakeThreads |-> "idle"]
    /\ pdata = [t \in WakeThreads |-> DefaultT]
    /\ newdummy = [t \in WakeThreads |-> NULL]
    /\ tl = [t \in WakeThreads |-> NULL]
    /\ datareturned = [t \in WakeThreads |-> DefaultT]
    /\ value = [t \in WakeThreads |-> CallerValue]
    /\ oldelement = [t \in WakeThreads |-> NULL]
    /\ rv = [t \in WakeThreads |-> "none"]
    /\ nPush = 0
    /\ hist = <<>>
    /\ fault = {}
    /\ NoSiblings

NextWakeOne ==
    \/ \E t \in {Notifier} : producer(t)
    \/ \E t \in Waiters : consumer(t)

SpecWakeOne == InitWakeOne /\ [][NextWakeOne]_vars

\* This step is the cv.notify_one() of thread p's push (line 67).
Notifies(p) == pc[p] = "push_notify" /\ pc'[p] # pc[p]

\* C16: every push wakes exactly one waiting pop, if any is waiting.  The
\* notification of a push takes exactly one thread off the condition
\* variable when threads are blocked there, and that thread is then inside
\* cv.wait no longer blocked; it takes none when none is blocked; no other
\* step of push takes a thread off; and a push returns by its notification
\* and by no other step, so this happens once for each push.
C16_PushWakesOne ==
    [][\A p \in WakeThreads :
          /\ Notifies(p) =>
                /\ cv' \subseteq cv
                /\ Cardinality(cv') = IF cv = {} THEN 0 ELSE Cardinality(cv) - 1
                /\ \A w \in cv \ cv' : op'[w] = "pop" /\ pc'[w] = "pop_wait"
          /\ (PushStep(p) /\ ~Notifies(p)) => cv' = cv
          /\ (op[p] = "push" /\ pc[p] # "done" /\ pc'[p] = "done") =>
                (Notifies(p) /\ rv'[p] = "void")]_vars

\* C16 witness: two pops were blocked in cv.wait; the push has returned and
\* one of the two is off the condition variable while the other still waits.
C16_Witness ==
    \E w, b \in Waiters :
        /\ w # b
        /\ pc[w] = "pop_wait" /\ w \notin cv
        /\ Waiting(b)
        /\ pc[Notifier] = "done"
        /\ rv[Notifier] = "void"
        /\ Len(PushedSeq) = 1

\* The destructor has not been called.
InUse == \A t \in DOMAIN pc : pc[t] \notin {"joined", "destroyed"}

\* This step is an exception from a copy of T leaving thread t's pop or
\* try_pop.
CopyFails(t) ==
    /\ op[t] \in {"pop", "try_pop"}
    /\ rv[t] # "exception"
    /\ rv'[t] = "exception"

\* The node thread t dequeued is off the chain.
Detached(t) == oldelement[t] # NULL /\ oldelement[t] \notin ChainNodes

Destroyed == \A t \in DOMAIN pc : pc[t] = "destroyed"

\* C12: teardown releases all memory.  Once the destructor has returned,
\* every node ever allocated has been released, by a pop, a try_pop or the
\* destructor, and none was released twice or touched after its release.
C12_TeardownReleasesAll ==
    Destroyed =>
        /\ \A n \in Nodes : st[n] # "live"
        /\ fault = {}

\* The values of the events of kind k so far, in order.
Events(k) ==
    LET e == SelectSeq(hist, LAMBDA x : x[1] = k)
    IN  [i \in 1..Len(e) |-> e[i][2]]

\* This step is the throw of std::runtime_error from thread t's pop.
PopThrows(t) == rv[t] # "runtime_error" /\ rv'[t] = "runtime_error"

\* Thread t's pop is at its test for emptiness and this step makes it.
PopChecks(t) ==
    /\ pc[t] \in {"Stack_pop_check", "Stack2_pop_check"}
    /\ pc'[t] # pc[t]

\* The stack is empty.
StackEmpty ==
    IF included = "ThreadSafeStack.cpp" THEN sdata = <<>> ELSE Top = NULL

\* C13: error on empty pop, for both stacks.  A pop that finds the stack
\* empty at its test, made under the mutex, throws, and a pop throws in no
\* other case; the step that throws leaves the stack and every node as they
\* were and releases the mutex; a thread that got the exception owns no
\* mutex.  A value returned by pop was pushed before and is returned no
\* more often than it was pushed, and no node is touched that is not live.
C13_PopOnEmptyThrows ==
    /\ [][\A t \in Threads :
            /\ PopChecks(t) => (PopThrows(t) <=> StackEmpty)
            /\ PopThrows(t) =>
                  /\ PopChecks(t)
                  /\ pc'[t] = "done"
                  /\ UNCHANGED <<sdata, Top, data, next, st, hist>>
                  /\ m' = NoThread
                  /\ Mutex' = NoThread]_vars
    /\ [](\A t \in Threads :
            /\ rv[t] = "runtime_error" =>
                  /\ op[t] \in {"Stack::pop", "Stack2::pop"}
                  /\ m # t
                  /\ Mutex # t
            /\ (op[t] = "Stack::pop" /\ rv[t] = "value") =>
                  Count(Events("Stack::push"), val[t]) > 0
            /\ (op[t] = "Stack2::pop" /\ rv[t] = "value") =>
                  Count(Events("Stack2::push"), datareturned[t]) > 0)
    /\ [](\A v \in Values \cup {DefaultT} :
            /\ Count(Events("Stack::pop"), v) <= Count(Events("Stack::push"), v)
            /\ Count(Events("Stack2::pop"), v) <= Count(Events("Stack2::push"), v))
    /\ [](fault = {})

\* C13 witness: a value was pushed and popped, and then a pop, racing with
\* nothing left to take, has thrown std::runtime_error while another thread
\* is inside a push.
C13_Witness ==
    \E t, u \in Threads :
        /\ rv[t] = "runtime_error"
        /\ pc[t] = "done"
        /\ Len(hist) = 2
        /\ op[u] \in {"Stack::push", "Stack2::push"}
        /\ pc[u] \in {"Stack_push_lock", "Stack2_push_lock"}

\* ------------------------------------------------------------- mutual exclusion
\* The threads between the return of their lock() and their call to unlock().
InCritical == {t \in DOMAIN pc : pc[t] = "critical"}

\* The threads inside the loop of lock().
Spinning ==
    {t \in DOMAIN pc :
        pc[t] \in {"SpinLock_lock_while", "SpinLock_lock_test_and_set"}
        /\ was_already_locked[t] = TRUE}

\* C20: SpinLock is a mutual-exclusion lock.  At most one thread is between
\* the return of its lock() and its call to unlock(), and the flag is set
\* while one is.  lock() returns only with was_already_locked false, and that
\* local turns false only in a test_and_set that found the flag clear and set
\* it.  unlock() clears the flag, and whenever the flag is clear each spinning
\* thread is able to take the step (its test, then a test_and_set reading
\* false) that acquires the lock.
C20_SpinLockMutualExclusion ==
    /\ [](Cardinality(InCritical) <= 1)
    /\ [](InCritical # {} => flag = TRUE)
    /\ [][\A t \in DOMAIN pc :
            /\ (pc'[t] = "critical" /\ pc[t] # "critical") =>
                  /\ pc[t] = "SpinLock_lock_ret"
                  /\ was_already_locked[t] = FALSE
            /\ (pc'[t] = "SpinLock_lock_ret" /\ pc[t] # "SpinLock_lock_ret") =>
                  was_already_locked[t] = FALSE
            /\ (was_already_locked[t] = TRUE /\ was_already_locked'[t] = FALSE) =>
                  /\ pc[t] = "SpinLock_lock_test_and_set"
                  /\ flag = FALSE
                  /\ flag' = TRUE
            /\ (pc[t] = "SpinLock_unlock_clear" /\ pc'[t] # pc[t]) =>
                  flag' = FALSE]_vars
    /\ [](\A t \in Spinning :
            /\ pc[t] = "SpinLock_lock_while" =>
                  ENABLED (SpinLock_lock_while(t)
                           /\ pc'[t] = "SpinLock_lock_test_and_set")
            /\ (flag = FALSE /\ pc[t] = "SpinLock_lock_test_and_set") =>
                  ENABLED (SpinLock_lock_test_and_set(t)
                           /\ was_already_locked'[t] = FALSE))

\* One thread has released the lock, a second one acquired it after that and
\* is in its critical section, and a third one is spinning on the set flag.
C20_Witness ==
    \E t, u, w \in DOMAIN pc :
        /\ pc[t] = "critical"
        /\ pc[u] = "SpinLock_unlock_ret"
        /\ w \in Spinning
        /\ pc[w] = "SpinLock_lock_test_and_set"
        /\ flag = TRUE

====
